---- MODULE Spec2Model ----
(***************************************************************************)
(* Model of crawler.py: the History Store (table books of book_history.db), *)
(* one scheduled run of main(), and the webhook sender                      *)
(* send_combined_message with split_message_smart and truncate_message.     *)
(***************************************************************************)
EXTENDS Integers, Sequences, FiniteSets, TLC

(***************************************************************************)
(* Bounds of the model.                                                     *)
(***************************************************************************)
\* run dates are 1..MaxDay (the value of `today`, crawler.py:450)
MaxDay == 2
\* at most MaxFaults operations of the History Store raise in one run
MaxFaults == 1
\* the clock of the sender runs from 0 to MaxClock seconds
MaxClock == 110
\* the text of a cell of the page has at most MaxTitleLen characters
MaxTitleLen == 3

(***************************************************************************)
(* Program constants.                                                       *)
(***************************************************************************)
\* for page in range(1, 4)
NumPages == 3
\* DB_COMMIT_BATCH_SIZE
DB_COMMIT_BATCH_SIZE == 10
\* "UPDATE books SET last_seen = ? WHERE title = ? AND is_published = 0": two "?"
UpdatePlaceholders == 2
\* (last_seen, last_seen, title): three bound values
UpdateParams == 3

\* the ceiling send_combined_message and split_message_smart compare with
Ceiling == 4096
\* estimated_content_length of truncate_message
EstimatedContentLength == 3800
\* MIN_INTERVAL_BETWEEN_MESSAGES, in seconds
MIN_INTERVAL_BETWEEN_MESSAGES == 60
\* bytes of json.dumps({"msgtype": "markdown", "markdown": {"content": ""}})
EnvelopeBytes == 52

(***************************************************************************)
(* Inputs: what the catalogue pages can hold.                               *)
(***************************************************************************)
\* a title is the sequence of its characters: "1.F", "F", "2.B"
RawF1 == << "1", ".", "F" >>
RawF == << "F" >>
RawB2 == << "2", ".", "B" >>
\* the period label of a page that could not be fetched ("未知月份")
UnknownMonth == "unknown"
\* what a fetched page can hold: its period label and its raw titles in order
PageContents ==
    { [ month |-> "2025-05", raw |-> << >> ],
      [ month |-> "2025-05", raw |-> << RawF1, RawB2 >> ],
      [ month |-> "2025-05", raw |-> << RawF >> ],
      [ month |-> "2025-06", raw |-> << RawB2 >> ] }

VARIABLES
    books,            \* table books, in rowid order
    pc,               \* position of main(): idle, fetch, add, mark, notify, failed
    failed_at,        \* where the error that ended the run arose
    today,            \* date of the current run
    page,             \* the page the loop of main() fetches next
    current_books,    \* main.current_books
    new_books,        \* main.new_books (the New facts)
    new_batch_bound,  \* whether the local new_batch of main() has been assigned
    published_books,  \* main.published_books (the Published facts)
    faults,           \* how many History Store operations raised in this run
    check_err_titles, \* titles whose check_book_exists raised in this run
    tracked_before,   \* titles of the rows with is_published = 0 when the publish check began
    notification_content, \* main.notification_content: its two groups of sections
    d_pc,             \* position of send_combined_message: idle, loop, single, done
    document,         \* the books and periods its argument content was composed of
    content,          \* its argument content
    sections,         \* sections = split_message_smart(content)
    idx,              \* the section the loop sends next (i + 1)
    success,          \* the local success of the loop
    result,           \* what send_combined_message returned
    posts,            \* the requests.post calls of this delivery, in order: the section
                      \* sent, the bytes of the JSON body, whether errcode 0 came back
    now,              \* the wall clock, in seconds
    marker,           \* the time in last_message_time.txt, -1 when the file is absent
    last_ok,          \* the time of the latest post answered with errcode 0, -1 when none
    gap,              \* the time between the two latest such posts, -1 when fewer
    marker_before,    \* the time in last_message_time.txt when the call began
    save_raised,      \* whether save_last_message_time raised in this call
    n_pc,             \* position of a title in get_book_titles: idle, raw, once, twice
    raw_title,        \* element.get_text(strip=True) of one cell of the page
    processed_title,  \* processed_title of get_book_titles for raw_title
    refed_title,      \* processed_title for a cell that holds processed_title
    o_pc,             \* position of a second main() that runs while the first does
    o_failed_at,      \* where the error that ended the second run arose
    o_today,          \* its today
    o_page,           \* its page
    o_current_books,  \* its current_books
    o_new_books,      \* its new_books
    o_new_batch_bound,     \* whether its new_batch has been assigned
    o_published_books,     \* its published_books
    o_notification_content \* its notification_content

rvars == << books, pc, failed_at, today, page, current_books, new_books,
            new_batch_bound, published_books, faults, check_err_titles,
            tracked_before, notification_content >>

dvars == << d_pc, document, content, sections, idx, success, result, posts, now, marker,
            last_ok, gap, marker_before, save_raised >>

nvars == << n_pc, raw_title, processed_title, refed_title >>

ovars == << o_pc, o_failed_at, o_today, o_page, o_current_books, o_new_books,
            o_new_batch_bound, o_published_books, o_notification_content >>

vars == << rvars, dvars, nvars, ovars >>

\* no run of main() has begun
RunIdle ==
    /\ books = << >>
    /\ pc = "idle"
    /\ failed_at = "none"
    /\ today = 1
    /\ page = 1
    /\ current_books = << >>
    /\ new_books = << >>
    /\ new_batch_bound = FALSE
    /\ published_books = << >>
    /\ faults = 0
    /\ check_err_titles = {}
    /\ tracked_before = {}
    /\ notification_content = [ new |-> << >>, pub |-> << >> ]

\* send_combined_message has not been called, last_message_time.txt is absent
DeliveryIdle ==
    /\ d_pc = "idle"
    /\ document = [ new |-> << >>, pub |-> << >> ]
    /\ content = << >>
    /\ sections = << >>
    /\ idx = 1
    /\ success = TRUE
    /\ result = "none"
    /\ posts = << >>
    /\ now = 0
    /\ marker = -1
    /\ last_ok = -1
    /\ gap = -1
    /\ marker_before = -1
    /\ save_raised = FALSE

\* no title is being processed
NormalizeIdle ==
    /\ n_pc = "idle"
    /\ raw_title = << >>
    /\ processed_title = << >>
    /\ refed_title = << >>

\* no second run of main() has begun
OtherIdle ==
    /\ o_pc = "idle"
    /\ o_failed_at = "none"
    /\ o_today = 1
    /\ o_page = 1
    /\ o_current_books = << >>
    /\ o_new_books = << >>
    /\ o_new_batch_bound = FALSE
    /\ o_published_books = << >>
    /\ o_notification_content = [ new |-> << >>, pub |-> << >> ]

(***************************************************************************)
(* Helpers on sequences.                                                    *)
(***************************************************************************)
Range(s) == { s[i] : i \in DOMAIN s }

Titles(bs) == { bs[i].title : i \in DOMAIN bs }

\* the sets of operations, among those of S, that may raise when n have raised
Faulty(S, n) == { e \in SUBSET S : n + Cardinality(e) <= MaxFaults }

Count(bs, t) == Cardinality({ i \in DOMAIN bs : bs[i].title = t })

(***************************************************************************)
(* get_book_titles: title.lstrip('0123456789.、 ')                          *)
(***************************************************************************)
\* the characters lstrip removes; "," stands for the ideographic comma
StripChars == { "0", "1", "2", "3", "4", "5", "6", "7", "8", "9", ".", ",", " " }

\* lstrip that removes one leading character of the set, not the whole run
LStripOne(s) ==
    IF s # << >> /\ Head(s) \in StripChars THEN Tail(s) ELSE s

RECURSIVE LStrip(_)
LStrip(s) ==
    IF s = << >> THEN s
    ELSE IF Head(s) \in StripChars THEN LStrip(Tail(s)) ELSE s

\* the result of one page: a fetch or parse error gives no titles
get_book_titles(ok, month, raw) ==
    IF ok
    THEN [ publish_month |-> month,
           titles |-> [ i \in DOMAIN raw |-> LStrip(raw[i]) ] ]
    ELSE [ publish_month |-> UnknownMonth, titles |-> << >> ]

\* the characters of the text of a cell: a digit, a dot, the ideographic
\* comma, a space, two letters
TitleChars == { "1", ".", ",", " ", "F", "B" }

\* the texts get_text(strip=True) can give: no space at either end
RawTitles ==
    { s \in UNION { [ 1..n -> TitleChars ] : n \in 0..MaxTitleLen } :
        s # << >> => (s[1] # " " /\ s[Len(s)] # " ") }

\* a cell of the page is read
InitNormalize ==
    /\ RunIdle
    /\ DeliveryIdle
    /\ OtherIdle
    /\ n_pc = "raw"
    /\ raw_title \in RawTitles
    /\ processed_title = << >>
    /\ refed_title = << >>

\* processed_title = title.lstrip('0123456789.、 ') for the text of the cell
ProcessTitle ==
    /\ n_pc = "raw"
    /\ processed_title' = LStrip(raw_title)
    /\ n_pc' = "once"
    /\ UNCHANGED << raw_title, refed_title >>
    /\ UNCHANGED << rvars, dvars, ovars >>

\* the same statement for a cell whose text is the processed title (the title
\* comes back in its stored form)
ReprocessTitle ==
    /\ n_pc = "once"
    /\ refed_title' = LStrip(processed_title)
    /\ n_pc' = "twice"
    /\ UNCHANGED << raw_title, processed_title >>
    /\ UNCHANGED << rvars, dvars, ovars >>

NextNormalize ==
    \/ ProcessTitle
    \/ ReprocessTitle

SpecNormalize == InitNormalize /\ [][NextNormalize]_vars

(***************************************************************************)
(* History Store.                                                           *)
(***************************************************************************)
HasTitle(table, t) == \E i \in DOMAIN table : table[i].title = t

\* check_book_exists with is_published = 0 added to its query
check_book_exists_tracked(table, t, err) ==
    IF err THEN FALSE
    ELSE \E i \in DOMAIN table : table[i].title = t /\ table[i].is_published = 0

\* SELECT * FROM books WHERE title = ?; an exception gives False
check_book_exists(table, t, err) ==
    IF err THEN FALSE ELSE HasTitle(table, t)

\* the UPDATE of update_book_last_seen, were its values bound
UpdateLastSeenRows(table, t, last_seen) ==
    [ i \in DOMAIN table |->
        IF table[i].title = t /\ table[i].is_published = 0
        THEN [ table[i] EXCEPT !.last_seen = last_seen ]
        ELSE table[i] ]

\* execute() raises ProgrammingError when the number of values differs from
\* the number of placeholders; the except clause logs it and returns
update_book_last_seen(table, t, last_seen) ==
    IF UpdatePlaceholders # UpdateParams
    THEN table
    ELSE UpdateLastSeenRows(table, t, last_seen)

NewRow(book) ==
    [ title |-> book.title, publish_month |-> book.publish_month,
      first_seen |-> book.first_seen, last_seen |-> book.last_seen,
      is_published |-> 0 ]

\* INSERT without the PRIMARY KEY of title
InsertBookNoKey(table, book, err) ==
    IF err THEN table ELSE Append(table, NewRow(book))

\* INSERT OR REPLACE in place of INSERT
InsertBookReplace(table, book, err) ==
    IF err THEN table
    ELSE IF HasTitle(table, book.title)
         THEN [ i \in DOMAIN table |->
                  IF table[i].title = book.title THEN NewRow(book) ELSE table[i] ]
         ELSE Append(table, NewRow(book))

\* one iteration of the loop of batch_add_books: the INSERT, IntegrityError on
\* an existing title (any status), any other exception logged
InsertBook(table, book, err) ==
    IF err THEN table
    ELSE IF HasTitle(table, book.title)
         THEN update_book_last_seen(table, book.title, book.last_seen)
         ELSE Append(table, NewRow(book))

RECURSIVE InsertAll(_, _, _, _)
InsertAll(table, bs, i, errs) ==
    IF i > Len(bs) THEN table
    ELSE InsertAll(InsertBook(table, bs[i], i \in errs), bs, i + 1, errs)

\* the books of the batches committed inside the loop (every
\* DB_COMMIT_BATCH_SIZE books); the rest is lost when the last commit fails
CommittedPrefix(bs) ==
    SubSeq(bs, 1, (Len(bs) \div DB_COMMIT_BATCH_SIZE) * DB_COMMIT_BATCH_SIZE)

\* mark_book_as_published that reports success and writes nothing
mark_book_as_published_lost(table, t) == table

\* UPDATE books SET is_published = 1 WHERE title = ?
mark_book_as_published(table, t) ==
    [ i \in DOMAIN table |->
        IF table[i].title = t
        THEN [ table[i] EXCEPT !.is_published = 1 ]
        ELSE table[i] ]

\* SELECT ... WHERE is_published = 0; an exception gives []
get_unpublished_books(table, err) ==
    IF err THEN << >>
    ELSE LET rows == SelectSeq(table, LAMBDA r : r.is_published = 0)
         IN  [ i \in DOMAIN rows |->
                 [ title |-> rows[i].title, publish_month |-> rows[i].publish_month,
                   first_seen |-> rows[i].first_seen, last_seen |-> rows[i].last_seen ] ]

\* the loop of check_and_mark_published_books: the table and the list of
\* published books after the rows i.. of unpublished
RECURSIVE MarkLoop(_, _, _, _, _, _)
MarkLoop(table, published, unpublished, i, current_titles, errs) ==
    IF i > Len(unpublished) THEN [ table |-> table, published |-> published ]
    ELSE IF unpublished[i].title \notin current_titles
         THEN IF i \in errs
              THEN MarkLoop(table, published, unpublished, i + 1, current_titles, errs)
              ELSE MarkLoop(mark_book_as_published(table, unpublished[i].title),
                            Append(published, unpublished[i]),
                            unpublished, i + 1, current_titles, errs)
         ELSE MarkLoop(table, published, unpublished, i + 1, current_titles, errs)

(***************************************************************************)
(* main(): one scheduled run.                                               *)
(***************************************************************************)
Init == RunIdle /\ DeliveryIdle /\ NormalizeIdle /\ OtherIdle

\* main() is entered: the locals are fresh, create_database finds the table
StartRun ==
    /\ UNCHANGED << dvars, nvars, ovars >>
    /\ pc \in { "idle", "failed" }
    /\ \E d \in today..MaxDay : today' = d
    /\ pc' = "fetch"
    /\ failed_at' = "none"
    /\ page' = 1
    /\ current_books' = << >>
    /\ new_books' = << >>
    /\ new_batch_bound' = FALSE
    /\ published_books' = << >>
    /\ faults' = 0
    /\ check_err_titles' = {}
    /\ tracked_before' = {}
    /\ notification_content' = [ new |-> << >>, pub |-> << >> ]
    /\ UNCHANGED books

\* one iteration of "for page in range(1, 4)": the page is fetched, its books
\* are appended to current_books, and those check_book_exists does not find
\* are appended to new_books. The log line after the batches reads new_batch,
\* which is unbound when no page so far had a title: the UnboundLocalError
\* reaches the handler of main(), whose call of the undefined
\* send_wechat_notification raises NameError out of main().
FetchPage ==
    /\ UNCHANGED << dvars, nvars, ovars >>
    /\ pc = "fetch"
    /\ \E ok \in BOOLEAN, fetched \in PageContents :
       /\ (~ ok) => fetched.raw = << >>
       /\ \E errs \in Faulty(1..Len(fetched.raw), faults) :
         LET page_result == get_book_titles(ok, fetched.month, fetched.raw)
             page_books == [ i \in DOMAIN page_result.titles |->
                               [ title |-> page_result.titles[i],
                                 publish_month |-> page_result.publish_month,
                                 first_seen |-> today, last_seen |-> today ] ]
             check_errs == IF ok THEN errs ELSE {}
             new_batch == [ k \in DOMAIN page_books |->
                              ~ check_book_exists(books, page_books[k].title, k \in check_errs) ]
             found == SelectSeq([ k \in DOMAIN page_books |->
                                    [ b |-> page_books[k], n |-> new_batch[k] ] ],
                                LAMBDA x : x.n)
             bound == new_batch_bound \/ page_books # << >>
         IN  /\ TRUE
             /\ current_books' = current_books \o page_books
             /\ new_books' = new_books \o [ k \in DOMAIN found |-> found[k].b ]
             /\ new_batch_bound' = bound
             /\ faults' = faults + Cardinality(check_errs)
             /\ check_err_titles' = check_err_titles \cup { page_books[i].title : i \in check_errs }
             /\ IF ~ bound
                THEN /\ pc' = "failed"
                     /\ failed_at' = "fetch"
                     /\ page' = page
                ELSE /\ failed_at' = failed_at
                     /\ IF page = NumPages
                        THEN pc' = "add" /\ page' = page
                        ELSE pc' = "fetch" /\ page' = page + 1
    /\ UNCHANGED << books, today, published_books, tracked_before,
                    notification_content >>

\* "if new_books: batch_add_books(new_books)". connect raising leaves conn
\* unbound in the except clause of batch_add_books, so the error leaves it and
\* ends the run; the last commit raising rolls back what was not committed.
BatchAddBooks ==
    /\ UNCHANGED << dvars, nvars, ovars >>
    /\ pc = "add"
    /\ IF new_books = << >>
       THEN /\ pc' = "mark"
            /\ UNCHANGED << books, faults, failed_at >>
       ELSE \E outcome \in { "ok", "connect_error", "commit_error" },
               errs \in Faulty(1..Len(new_books), faults) :
              /\ (outcome # "ok") => (errs = {} /\ faults < MaxFaults)
              /\ books' = CASE outcome = "ok" -> InsertAll(books, new_books, 1, errs)
                            [] outcome = "commit_error" ->
                                 InsertAll(books, CommittedPrefix(new_books), 1, errs)
                            [] outcome = "connect_error" -> books
              /\ faults' = faults + Cardinality(errs) + (IF outcome = "ok" THEN 0 ELSE 1)
              /\ IF outcome = "connect_error"
                 THEN pc' = "failed" /\ failed_at' = "add"
                 ELSE pc' = "mark" /\ failed_at' = failed_at
    /\ UNCHANGED << today, page, current_books, new_books, new_batch_bound,
                    published_books, check_err_titles, tracked_before,
                    notification_content >>

\* published_books = check_and_mark_published_books(current_books)
CheckAndMarkPublishedBooks ==
    /\ UNCHANGED << dvars, nvars, ovars >>
    /\ pc = "mark"
    /\ \E scan_err \in { e \in BOOLEAN : e => faults < MaxFaults } :
         LET unpublished == get_unpublished_books(books, scan_err)
         IN  \E errs \in Faulty(1..Len(unpublished), faults) :
               LET r == MarkLoop(books, << >>, unpublished, 1,
                                 Titles(current_books), errs)
               IN  /\ \A i \in errs : unpublished[i].title \notin Titles(current_books)
                   /\ books' = r.table
                   /\ published_books' = r.published
                   /\ tracked_before' = { books[i].title : i \in { j \in DOMAIN books : books[j].is_published = 0 } }
                   /\ faults' = faults + Cardinality(errs) + (IF scan_err THEN 1 ELSE 0)
    /\ pc' = "notify"
    /\ UNCHANGED << failed_at, today, page, current_books, new_books,
                    new_batch_bound, check_err_titles, notification_content >>

\* the keys of books_by_month (published_by_month) in the order of the dict:
\* a month is added when the first book of that month comes
RECURSIVE MonthKeys(_, _, _)
MonthKeys(bs, i, keys) ==
    IF i > Len(bs) THEN keys
    ELSE IF bs[i].publish_month \in Range(keys)
         THEN MonthKeys(bs, i + 1, keys)
         ELSE MonthKeys(bs, i + 1, Append(keys, bs[i].publish_month))

\* "for month, books in books_by_month.items()": one section per key, in the
\* order of the keys, with the books of the month in the order of the list
books_by_month(bs) ==
    LET keys == MonthKeys(bs, 1, << >>)
    IN  [ k \in DOMAIN keys |->
            [ month |-> keys[k],
              books |-> SelectSeq(bs, LAMBDA b : b.publish_month = keys[k]) ] ]

\* the document is composed, the group of the new books before the group of
\* the published books, and handed to send_wechat_notification, which no
\* module defines: NameError, then NameError again in the handler
Notify ==
    /\ UNCHANGED << dvars, nvars, ovars >>
    /\ pc = "notify"
    /\ notification_content' = [ new |-> books_by_month(new_books),
                                 pub |-> books_by_month(published_books) ]
    /\ pc' = "failed"
    /\ failed_at' = "notify"
    /\ UNCHANGED << books, today, page, current_books, new_books, new_batch_bound,
                    published_books, faults, check_err_titles, tracked_before >>

Next ==
    \/ StartRun
    \/ FetchPage
    \/ BatchAddBooks
    \/ CheckAndMarkPublishedBooks
    \/ Notify

Spec == Init /\ [][Next]_vars

(***************************************************************************)
(* Two runs of main() at once: a second run is triggered while the first is *)
(* between its first fetch and its notification. Both use book_history.db;  *)
(* each SELECT, and each batch_add_books or UPDATE with its commit, is one   *)
(* step on the table. The table is empty when the first run begins, each    *)
(* run is followed to its end, and no store operation raises other than by  *)
(* IntegrityError.                                                          *)
(***************************************************************************)
\* the first run, on the first day
FirstStartRun == StartRun /\ pc = "idle" /\ today' = today

FirstFetchPage == FetchPage /\ faults' = 0

FirstBatchAddBooks == BatchAddBooks /\ faults' = 0

FirstCheckAndMarkPublishedBooks == CheckAndMarkPublishedBooks /\ faults' = 0

OtherStartRun ==
    /\ UNCHANGED << rvars, dvars, nvars >>
    /\ pc \in { "fetch", "add", "mark", "notify" }
    /\ o_pc = "idle"
    /\ o_today' = today
    /\ o_pc' = "fetch"
    /\ o_failed_at' = "none"
    /\ o_page' = 1
    /\ o_current_books' = << >>
    /\ o_new_books' = << >>
    /\ o_new_batch_bound' = FALSE
    /\ o_published_books' = << >>
    /\ o_notification_content' = [ new |-> << >>, pub |-> << >> ]

\* one iteration of "for page in range(1, 4)" of the second run
OtherFetchPage ==
    /\ UNCHANGED << rvars, dvars, nvars >>
    /\ o_pc = "fetch"
    /\ \E ok \in BOOLEAN, fetched \in PageContents :
       /\ (~ ok) => fetched.raw = << >>
       /\ LET page_result == get_book_titles(ok, fetched.month, fetched.raw)
              page_books == [ i \in DOMAIN page_result.titles |->
                                [ title |-> page_result.titles[i],
                                  publish_month |-> page_result.publish_month,
                                  first_seen |-> o_today, last_seen |-> o_today ] ]
              new_batch == [ k \in DOMAIN page_books |->
                               ~ check_book_exists(books, page_books[k].title, FALSE) ]
              found == SelectSeq([ k \in DOMAIN page_books |->
                                     [ b |-> page_books[k], n |-> new_batch[k] ] ],
                                 LAMBDA x : x.n)
              bound == o_new_batch_bound \/ page_books # << >>
          IN  /\ o_current_books' = o_current_books \o page_books
              /\ o_new_books' = o_new_books \o [ k \in DOMAIN found |-> found[k].b ]
              /\ o_new_batch_bound' = bound
              /\ IF ~ bound
                 THEN /\ o_pc' = "failed"
                      /\ o_failed_at' = "fetch"
                      /\ o_page' = o_page
                 ELSE /\ o_failed_at' = o_failed_at
                      /\ IF o_page = NumPages
                         THEN o_pc' = "add" /\ o_page' = o_page
                         ELSE o_pc' = "fetch" /\ o_page' = o_page + 1
    /\ UNCHANGED << o_today, o_published_books, o_notification_content >>

\* "if new_books: batch_add_books(new_books)" of the second run
OtherBatchAddBooks ==
    /\ UNCHANGED << dvars, nvars >>
    /\ o_pc = "add"
    /\ books' = IF o_new_books = << >> THEN books
                ELSE InsertAll(books, o_new_books, 1, {})
    /\ o_pc' = "mark"
    /\ UNCHANGED << pc, failed_at, today, page, current_books, new_books,
                    new_batch_bound, published_books, faults, check_err_titles,
                    tracked_before, notification_content >>
    /\ UNCHANGED << o_failed_at, o_today, o_page, o_current_books, o_new_books,
                    o_new_batch_bound, o_published_books, o_notification_content >>

\* published_books = check_and_mark_published_books(current_books) of the
\* second run
OtherCheckAndMarkPublishedBooks ==
    /\ UNCHANGED << dvars, nvars >>
    /\ o_pc = "mark"
    /\ LET unpublished == get_unpublished_books(books, FALSE)
           r == MarkLoop(books, << >>, unpublished, 1, Titles(o_current_books), {})
       IN  /\ books' = r.table
           /\ o_published_books' = r.published
    /\ o_pc' = "notify"
    /\ UNCHANGED << pc, failed_at, today, page, current_books, new_books,
                    new_batch_bound, published_books, faults, check_err_titles,
                    tracked_before, notification_content >>
    /\ UNCHANGED << o_failed_at, o_today, o_page, o_current_books, o_new_books,
                    o_new_batch_bound, o_notification_content >>

\* the composition and the call of send_wechat_notification of the second run
OtherNotify ==
    /\ UNCHANGED << rvars, dvars, nvars >>
    /\ o_pc = "notify"
    /\ o_notification_content' = [ new |-> books_by_month(o_new_books),
                                   pub |-> books_by_month(o_published_books) ]
    /\ o_pc' = "failed"
    /\ o_failed_at' = "notify"
    /\ UNCHANGED << o_today, o_page, o_current_books, o_new_books,
                    o_new_batch_bound, o_published_books >>

NextOverlap ==
    \/ FirstStartRun
    \/ FirstFetchPage
    \/ FirstBatchAddBooks
    \/ FirstCheckAndMarkPublishedBooks
    \/ Notify
    \/ OtherStartRun
    \/ OtherFetchPage
    \/ OtherBatchAddBooks
    \/ OtherCheckAndMarkPublishedBooks
    \/ OtherNotify

SpecOverlap == Init /\ [][NextOverlap]_vars

(***************************************************************************)
(* Text. A string is the sequence of its tokens: a newline, the markers     *)
(* "## " and "### ", the truncation notice, or a run of n characters of one *)
(* class. Class "a" is a character of 1 byte that JSON leaves alone, class  *)
(* "e" a character of 1 byte that json.dumps escapes to 2 (a quote, a       *)
(* backslash, a newline), class "w" a character of 3 bytes (ensure_ascii is *)
(* False, so JSON leaves it alone). The tag says which text a run is.       *)
(***************************************************************************)
NL == [ k |-> "nl", c |-> "e", n |-> 1, tag |-> << >> ]
H2 == [ k |-> "h2", c |-> "a", n |-> 3, tag |-> << >> ]
H3 == [ k |-> "h3", c |-> "a", n |-> 4, tag |-> << >> ]
\* "...（内容过长，已自动截断）": 39 bytes
NOTICE == [ k |-> "notice", c |-> "a", n |-> 39, tag |-> << >> ]
Txt(c, n, tag) == [ k |-> "txt", c |-> c, n |-> n, tag |-> tag ]

RawWidth(c) == IF c = "w" THEN 3 ELSE 1
JsonWidth(c) == CASE c = "a" -> 1 [] c = "e" -> 2 [] c = "w" -> 3

RECURSIVE RawBytes(_)
RawBytes(toks) ==
    IF toks = << >> THEN 0
    ELSE Head(toks).n * RawWidth(Head(toks).c) + RawBytes(Tail(toks))

RECURSIVE JsonBytes(_)
JsonBytes(toks) ==
    IF toks = << >> THEN 0
    ELSE Head(toks).n * JsonWidth(Head(toks).c) + JsonBytes(Tail(toks))

\* len(json.dumps({"msgtype": "markdown", "markdown": {"content": c}},
\*                ensure_ascii=False).encode('utf-8'))
JsonLength(toks) == EnvelopeBytes + JsonBytes(toks)

\* str.split(sep): the pieces between the occurrences of sep, left to right
RECURSIVE SplitOn(_, _, _)
SplitOn(toks, sep, piece) ==
    IF Len(toks) < Len(sep) THEN << piece \o toks >>
    ELSE IF SubSeq(toks, 1, Len(sep)) = sep
         THEN << piece >> \o SplitOn(SubSeq(toks, Len(sep) + 1, Len(toks)), sep, << >>)
         ELSE SplitOn(Tail(toks), sep, Append(piece, Head(toks)))

\* sep.join(pieces)
RECURSIVE Join(_, _)
Join(pieces, sep) ==
    IF pieces = << >> THEN << >>
    ELSE IF Len(pieces) = 1 THEN pieces[1]
    ELSE pieces[1] \o sep \o Join(Tail(pieces), sep)

(***************************************************************************)
(* The document main() composes. A section is the list of its titles, a     *)
(* title being [c, n]: n characters of class c. Dates and period labels     *)
(* have a fixed length (10 and 7 bytes), counts and item numbers one digit. *)
(***************************************************************************)
\* "### {i}. {title}\n- 首次发现: `{first_seen}`\n\n"
NewItem(s, i, title) ==
    << H3, Txt("a", 3, << "no", "new", s, i >>),
       Txt(title.c, title.n, << "title", "new", s, i >>), NL,
       Txt("a", 28, << "first", "new", s, i >>), NL, NL >>

\* "### {i}. {title}\n- 首次出现: ..\n- 最后出现: ..\n- 状态: ✅ **已出版**\n\n"
PublishedItem(s, i, title) ==
    << H3, Txt("a", 3, << "no", "pub", s, i >>),
       Txt(title.c, title.n, << "title", "pub", s, i >>), NL,
       Txt("a", 28, << "first", "pub", s, i >>), NL,
       Txt("a", 28, << "last", "pub", s, i >>), NL,
       Txt("a", 27, << "state", "pub", s, i >>), NL, NL >>

RECURSIVE Items(_, _, _, _)
Items(group, s, titles, i) ==
    IF i > Len(titles) THEN << >>
    ELSE (IF group = "new" THEN NewItem(s, i, titles[i])
          ELSE PublishedItem(s, i, titles[i]))
         \o Items(group, s, titles, i + 1)

\* "## 📅 {month} 预定出版的新书\n\n" (37 bytes) or
\* "## 📅 {month} 已出版的书籍\n\n" (34 bytes), then the items
RECURSIVE Sections(_, _, _)
Sections(group, secs, s) ==
    IF s > Len(secs) THEN << >>
    ELSE << H2, Txt("a", IF group = "new" THEN 34 ELSE 31, << "header", group, s >>),
            NL, NL >>
         \o Items(group, s, secs[s], 1)
         \o Sections(group, secs, s + 1)

\* notification_content of main(): the group of new books, then the group of
\* published books, each under its line of summary; with neither, the text
\* of the "no update" message
Compose(doc) ==
    IF doc.new = << >> /\ doc.pub = << >>
    THEN << Txt("a", 75, << "none" >>), NL, NL, Txt("a", 32, << "months" >>), NL,
            Txt("a", 38, << "time" >>), NL >>
    ELSE (IF doc.new = << >> THEN << >>
          ELSE << Txt("a", 44, << "summary", "new" >>), NL, NL >>
               \o Sections("new", doc.new, 1))
         \o
         (IF doc.pub = << >> THEN << >>
          ELSE << Txt("a", 41, << "summary", "pub" >>), NL, NL >>
               \o Sections("pub", doc.pub, 1))

(***************************************************************************)
(* split_message_smart and truncate_message.                                *)
(***************************************************************************)
\* the first loop: the month sections are accumulated while the JSON of the
\* accumulated text stays within the ceiling
RECURSIVE AccumulateSections(_, _, _, _)
AccumulateSections(month_sections, i, current_section, out) ==
    IF i > Len(month_sections)
    THEN IF current_section # << >> THEN Append(out, current_section) ELSE out
    ELSE LET section_content == << H2 >> \o month_sections[i]
         IN  IF JsonLength(current_section \o << NL, NL >> \o section_content) > Ceiling
             THEN AccumulateSections(month_sections, i + 1, section_content,
                                     Append(out, current_section))
             ELSE AccumulateSections(month_sections, i + 1,
                                     current_section \o << NL, NL >> \o section_content,
                                     out)

\* "\n### ".join(current_batch): the "### " before the first book of the
\* batch, which split took away, is not put back
JoinBatch(current_batch) == Join(current_batch, << NL, H3 >>)

\* the loop over the books of a section that is over the ceiling
RECURSIVE AccumulateBooks(_, _, _, _)
AccumulateBooks(bks, i, current_batch, out) ==
    IF i > Len(bks)
    THEN IF current_batch # << >> THEN Append(out, JoinBatch(current_batch)) ELSE out
    ELSE IF /\ JsonLength(JoinBatch(Append(current_batch, bks[i]))) > Ceiling
            /\ current_batch # << >>
         THEN AccumulateBooks(bks, i + 1, << bks[i] >>,
                              Append(out, JoinBatch(current_batch)))
         ELSE AccumulateBooks(bks, i + 1, Append(current_batch, bks[i]), out)

\* the second loop: a section over the ceiling is split at its books
RECURSIVE SplitOversized(_, _)
SplitOversized(secs, i) ==
    IF i > Len(secs) THEN << >>
    ELSE (IF JsonLength(secs[i]) <= Ceiling
          THEN << secs[i] >>
          ELSE AccumulateBooks(SplitOn(secs[i], << NL, H3 >>, << >>), 1, << >>, << >>))
         \o SplitOversized(secs, i + 1)

split_message_smart(text) ==
    LET month_sections == SplitOn(text, << NL, NL, H2 >>, << >>)
    IN  SplitOversized(
          AccumulateSections(month_sections, 2, month_sections[1], << >>), 1)

\* content.encode('utf-8')[:limit], decoded up to the last whole character
RECURSIVE TakeBytes(_, _)
TakeBytes(toks, limit) ==
    IF toks = << >> THEN << >>
    ELSE LET t == Head(toks)
             size == t.n * RawWidth(t.c)
             whole == limit \div RawWidth(t.c)
         IN  IF size <= limit
             THEN << t >> \o TakeBytes(Tail(toks), limit - size)
             ELSE IF whole = 0 THEN << >>
                  ELSE << Txt(t.c, whole, << "cut" >> \o t.tag) >>

\* the index of the last newline of toks, 0 when it has none
LastNewline(toks) ==
    LET at == { i \in DOMAIN toks : toks[i] = NL }
    IN  IF at = {} THEN 0 ELSE CHOOSE i \in at : \A j \in at : j <= i

\* content.rsplit('\n', 1)[0]
BeforeLastNewline(toks) ==
    IF LastNewline(toks) = 0 THEN toks ELSE SubSeq(toks, 1, LastNewline(toks) - 1)

\* the bytes up to estimated_content_length, the last line dropped, and the
\* notice "\n\n...（内容过长，已自动截断）" appended
truncate_message(text) ==
    BeforeLastNewline(TakeBytes(text, EstimatedContentLength)) \o << NL, NL, NOTICE >>

(***************************************************************************)
(* send_combined_message(title, content). main() reaches it by no path (it  *)
(* calls send_wechat_notification, which is not defined), so the sender is  *)
(* driven here by calls of its own, one after the other.                    *)
(***************************************************************************)
\* the titles a document can hold
Short == [ c |-> "a", n |-> 20 ]
Mid == [ c |-> "a", n |-> 1900 ]
Big == [ c |-> "a", n |-> 2500 ]
Quoted == [ c |-> "e", n |-> 3000 ]
Huge == [ c |-> "w", n |-> 1500 ]

\* the documents the sender is called with: no update; one new book; a new
\* and a published book; a section of two large books; a book whose title is
\* all quotes; a book with a long title of 3-byte characters; Scenario B (five
\* sections, about 10,000 bytes); and sections of several sizes in both groups
Docs ==
    { [ new |-> << >>, pub |-> << >> ],
      [ new |-> << << Short >> >>, pub |-> << >> ],
      [ new |-> << << Short >> >>, pub |-> << << Short >> >> ],
      [ new |-> << << Big, Big >> >>, pub |-> << >> ],
      [ new |-> << << Quoted >> >>, pub |-> << >> ],
      [ new |-> << << Huge >> >>, pub |-> << >> ],
      [ new |-> << << Mid >>, << Mid >>, << Mid >> >>, pub |-> << << Mid >>, << Mid >> >> ],
      [ new |-> << << Short, Mid >>, << Big, Big >> >>, pub |-> << << Short >> >> ] }

\* what is posted for a section: the section, truncated when its JSON is
\* over the ceiling (the length after truncation is logged, not checked)
SectionBody(section) ==
    IF JsonLength(section) > Ceiling THEN truncate_message(section) ELSE section

\* for each document: its text, and for a text over the ceiling its sections
\* and what is posted for each
Texts == [ doc \in Docs |-> Compose(doc) ]
Splits ==
    [ doc \in Docs |->
        IF JsonLength(Texts[doc]) > Ceiling THEN split_message_smart(Texts[doc])
        ELSE << >> ]
Bodies == [ doc \in Docs |-> [ i \in DOMAIN Splits[doc] |-> SectionBody(Splits[doc][i]) ] ]

\* seconds between the end of one call and the next call
RunGaps == { 30, 70 }
\* whole seconds one requests.post takes (its timeout is 15 for the connection
\* and 15 for each read)
PostDelays == { 0, 1 }
\* errcode 0; another errcode; raise_for_status or the transport raising
Outcomes == { "ok", "errcode", "exception" }

\* a loop that sends a section again until it is accepted
NextSectionRetry(i, outcome, n) == IF outcome = "ok" THEN i + 1 ELSE i

\* a loop that stops at the first section that fails
NextSectionAbort(i, outcome, n) == IF outcome = "ok" THEN i + 1 ELSE n + 1

\* "for i, section in enumerate(sections)": the section after section i of n,
\* whatever became of section i
NextSection(i, outcome, n) == i + 1

\* get_last_message_time: the time in the file, None (-1) when the file is
\* absent or reading it raises
get_last_message_time(file, readable) == IF readable THEN file ELSE -1

\* save_last_message_time at time t: the file afterwards; an exception is logged
save_last_message_time(file, t, saved) == IF saved THEN t ELSE file

\* the ghosts last_ok and gap after a post answered at time t
Answered(outcome, t) ==
    IF outcome = "ok"
    THEN /\ last_ok' = t
         /\ gap' = IF last_ok = -1 THEN gap ELSE t - last_ok
    ELSE UNCHANGED << last_ok, gap >>

\* lines 190-221: the call, the wait after a recent last_message_time.txt,
\* the length of the JSON, and split_message_smart when it is over the ceiling
SendCombinedMessage ==
    /\ d_pc \in { "idle", "done" }
    /\ \E doc \in Docs, webhook \in BOOLEAN, elapsed \in RunGaps,
          readable \in { r \in BOOLEAN : marker = -1 => r } :
         LET called == now + elapsed
             last_time == get_last_message_time(marker, readable)
             wait_time ==
                 IF last_time # -1 /\ called - last_time < MIN_INTERVAL_BETWEEN_MESSAGES
                 THEN MIN_INTERVAL_BETWEEN_MESSAGES - (called - last_time)
                 ELSE 0
             text == Texts[doc]
         IN  /\ called + wait_time <= MaxClock
             /\ document' = doc
             /\ content' = text
             /\ posts' = << >>
             /\ idx' = 1
             /\ success' = TRUE
             /\ IF ~ webhook
                THEN /\ now' = called
                     /\ sections' = << >>
                     /\ result' = "false"
                     /\ d_pc' = "done"
                ELSE /\ now' = called + wait_time
                     /\ result' = "none"
                     /\ IF JsonLength(text) > Ceiling
                        THEN sections' = Splits[doc] /\ d_pc' = "loop"
                        ELSE sections' = << >> /\ d_pc' = "single"
    /\ marker_before' = marker
    /\ save_raised' = FALSE
    /\ UNCHANGED << marker, last_ok, gap >>
    /\ UNCHANGED << rvars, nvars, ovars >>

\* lines 223-265: one pass of the loop over the sections, and after the last
\* section the marker is saved if every section was accepted
SendSection ==
    /\ d_pc = "loop"
    /\ \E outcome \in Outcomes, took \in PostDelays, saved \in BOOLEAN :
         LET answered == now + took
             next == NextSection(idx, outcome, Len(sections))
             all_ok == success /\ outcome = "ok"
         IN  /\ answered <= MaxClock
             /\ now' = answered
             /\ posts' = Append(posts, [ chunk |-> idx, ok |-> outcome = "ok",
                                         bytes |-> JsonLength(Bodies[document][idx]) ])
             /\ success' = all_ok
             /\ idx' = next
             /\ Answered(outcome, answered)
             /\ IF next > Len(sections)
                THEN /\ d_pc' = "done"
                     /\ result' = IF all_ok THEN "true" ELSE "false"
                     /\ marker' = IF all_ok
                                  THEN save_last_message_time(marker, answered, saved)
                                  ELSE marker
                     /\ save_raised' = (all_ok /\ ~ saved)
                ELSE UNCHANGED << d_pc, result, marker, save_raised >>
    /\ UNCHANGED << document, content, sections, marker_before >>
    /\ UNCHANGED << rvars, nvars, ovars >>

\* lines 266-283: the document fits one message
SendSingle ==
    /\ d_pc = "single"
    /\ \E outcome \in Outcomes, took \in PostDelays, saved \in BOOLEAN :
         LET answered == now + took
         IN  /\ answered <= MaxClock
             /\ now' = answered
             /\ posts' = << [ chunk |-> 1, ok |-> outcome = "ok",
                             bytes |-> JsonLength(content) ] >>
             /\ Answered(outcome, answered)
             /\ result' = IF outcome = "ok" THEN "true" ELSE "false"
             /\ marker' = IF outcome = "ok"
                          THEN save_last_message_time(marker, answered, saved)
                          ELSE marker
             /\ save_raised' = (outcome = "ok" /\ ~ saved)
    /\ d_pc' = "done"
    /\ UNCHANGED << document, content, sections, idx, success, marker_before >>
    /\ UNCHANGED << rvars, nvars, ovars >>

NextDeliver ==
    \/ SendCombinedMessage
    \/ SendSection
    \/ SendSingle

SpecDeliver == Init /\ [][NextDeliver]_vars

(***************************************************************************)
(* Properties of the processing of a title.                                 *)
(***************************************************************************)
\* C12: the processed title of a cell whose text is not empty is not empty.
C12_ProcessedTitleNotEmpty ==
    (n_pc \in { "once", "twice" } /\ raw_title # << >>) => processed_title # << >>

\* C13: processing the processed title again gives the processed title.
C13_ProcessingIdempotent ==
    n_pc = "twice" => refed_title = processed_title

\* a title with a prefix of several characters ("1.F") has been processed
\* twice
C13_Witness ==
    /\ n_pc = "twice"
    /\ Len(raw_title) = MaxTitleLen
    /\ Len(processed_title) = 1
    /\ refed_title = processed_title

(***************************************************************************)
(* Properties of the History Store and of a run.                            *)
(***************************************************************************)
Row(t) == CHOOSE r \in Range(books) : r.title = t

RunEnded == pc = "failed" /\ failed_at = "notify"

PublishCheckDone == pc = "notify" \/ RunEnded

AddDone == pc \in { "mark", "notify" } \/ RunEnded

\* C11: once an operation of the History Store has raised in a run, the run
\* is over: it has ended in failure at the operation that raised, and goes on
\* to no further step.
C11_StoreErrorAbortsRun ==
    faults > 0 => (pc = "failed" /\ failed_at \in { "fetch", "add", "mark" })

\* C14: when the inserts of a run without store errors are done, each title
\* among the New facts has exactly one New fact and exactly one row.
C14_OneNewFactPerTitle ==
    (AddDone /\ faults = 0) =>
      \A t \in Titles(new_books) :
        Count(new_books, t) = 1 /\ Count(books, t) = 1

\* C15: a run whose change detection completed does not end in an error
\* between composition and delivery: when it ends, send_combined_message has
\* been called and has posted at least once.
C15_DocumentDelivered ==
    (pc = "failed" /\ failed_at \notin { "fetch", "add" }) => posts # << >>

\* C19: when the inserts of a run are done, every New fact is the fact of a
\* row the run inserted: the title has a row, Tracked, first seen on the
\* run's date.
C19_NewFactsWereInserted ==
    AddDone =>
      \A i \in DOMAIN new_books :
        /\ HasTitle(books, new_books[i].title)
        /\ Row(new_books[i].title).is_published = 0
        /\ Row(new_books[i].title).first_seen = today

\* C20: a run whose pages all gave no title is not aborted: it ends after the
\* publish check, and then no row is Tracked.
C20_EmptySnapshotPublishesAll ==
    (pc = "failed" /\ current_books = << >>) =>
      /\ failed_at = "notify"
      /\ \A i \in DOMAIN books : books[i].is_published = 1

\* the period labels in lexicographic order ("未知月份" is after the digits)
PeriodOrder == << "2025-05", "2025-06", UnknownMonth >>

PeriodRank(m) == CHOOSE i \in DOMAIN PeriodOrder : PeriodOrder[i] = m

\* a group of sections is in the lexicographic order of its period labels
PeriodsAscend(group) ==
    \A i, j \in DOMAIN group :
      i < j => PeriodRank(group[i].month) < PeriodRank(group[j].month)

\* a group holds the facts of each period in the order of the list of facts
ItemsInInsertionOrder(group, facts) ==
    \A i \in DOMAIN group :
      group[i].books = SelectSeq(facts, LAMBDA b : b.publish_month = group[i].month)

\* C17: in the document of a run, the sections of the New group and those of
\* the Published group are in the lexicographic order of their period
\* labels, and the items of a section are in the order of the facts.
C17_SectionsInPeriodOrder ==
    RunEnded =>
      /\ PeriodsAscend(notification_content.new)
      /\ PeriodsAscend(notification_content.pub)
      /\ ItemsInInsertionOrder(notification_content.new, new_books)
      /\ ItemsInInsertionOrder(notification_content.pub, published_books)

OtherRunEnded == o_pc = "failed" /\ o_failed_at = "notify"

OtherAddDone == o_pc \in { "mark", "notify" } \/ OtherRunEnded

\* the titles of the New facts of a document
NewFactTitles(doc) ==
    UNION { Titles(doc.new[i].books) : i \in DOMAIN doc.new }

Lines(toks) == SplitOn(toks, << NL >>, << >>)

\* its lines that begin with "## " or "### ", in order
HeaderItemLines(toks) ==
    SelectSeq(Lines(toks), LAMBDA l : l # << >> /\ Head(l).k \in { "h2", "h3" })

\* those lines of the sections i.., one section after the other
RECURSIVE SectionLines(_, _)
SectionLines(secs, i) ==
    IF i > Len(secs) THEN << >>
    ELSE HeaderItemLines(secs[i]) \o SectionLines(secs, i + 1)

Delivered == d_pc = "done" /\ posts # << >>

\* C5: the JSON body of every post is at most 4096 bytes.
C5_PayloadWithinCeiling ==
    \A i \in DOMAIN posts : posts[i].bytes <= Ceiling

\* C6: when a document was split and no section needed truncation, the
\* "## " and "### " lines of the sections, taken in order, are those of the
\* document: each once, in the order of the document.
C6_SectionsReproduceLines ==
    ( /\ Delivered
      /\ sections # << >>
      /\ \A i \in DOMAIN sections : JsonLength(sections[i]) <= Ceiling )
      => SectionLines(sections, 1) = HeaderItemLines(content)

\* C7: two posts answered with errcode 0, one after the other (in one call or
\* in two), are at least MIN_INTERVAL_BETWEEN_MESSAGES seconds apart.
C7_MinInterval ==
    gap = -1 \/ gap >= MIN_INTERVAL_BETWEEN_MESSAGES

C9_LaterSectionsAttempted ==
    (Delivered /\ sections # << >>) =>
      /\ Len(posts) = Len(sections)
      /\ \A i \in DOMAIN posts : posts[i].chunk = i
      /\ result \in { "true", "false" }

\* the first of at least three sections failed, the last was accepted
C9_Witness ==
    /\ Delivered
    /\ Len(sections) >= 3
    /\ Len(posts) = Len(sections)
    /\ ~ posts[1].ok
    /\ posts[Len(posts)].ok
    /\ result = "false"

\* the posts of the call that were answered with errcode 0
Accepted == { i \in DOMAIN posts : posts[i].ok }

\* C16: when a call has returned and save_last_message_time did not raise,
\* the marker is the time of an accepted post of the call if a post was
\* accepted, and is what it was before the call if none was.
C16_MarkerIffSomeChunkSent ==
    (Delivered /\ ~ save_raised) =>
      IF Accepted # {} THEN marker = last_ok ELSE marker = marker_before

====
